---- MODULE Spec2Model ----
(***************************************************************************)
(* GlobalMockable<T> (src/src/lib.rs): a tokio RwLock around a tokio       *)
(* OnceCell<Arc<T>>, with get_or_init / set / clear, and the accessor      *)
(* generated by define_global_mockable!.                                   *)
(*                                                                         *)
(* The RwLock is tokio's: a fair FIFO semaphore, a read takes one permit,  *)
(* a write takes all of them, permits released go to the queue head first. *)
(* The OnceCell is tokio's: an initialized flag plus a one-permit FIFO     *)
(* semaphore that is closed when the value is stored.                      *)
(*                                                                         *)
(* The slot's content is one memory location.  `cells` is the history of   *)
(* the OnceCells that location has held; the location's content is the     *)
(* last element.  A guard dereferences to the location, so every access    *)
(* made through a guard goes to the last element.                          *)
(***************************************************************************)
EXTENDS Integers, Sequences, FiniteSets, TLC

\* ---- bounds ------------------------------------------------------------
NTasks == 3
MaxOps == 3
\* set/clear calls issued among callers that read again and again
MaxLiveWrites == 2

Tasks == 1..NTasks

\* payloads the factories passed to get_or_init return, and payloads of the
\* handles passed to set
FactoryVals == {1, 2}
SetVals == {98, 99}

\* ---- handles -----------------------------------------------------------
\* An Arc<T>: the payload and the identity of the allocation.  A factory
\* run allocates a new Arc (id = the number of that run, >= 1); Arcs built
\* by the caller of set have id 0.
None == [val |-> 0, id |-> -1]

Arc_new(v, n) == [val |-> v, id |-> n]

\* ---- OnceCell ----------------------------------------------------------
\* value: None (value_set is false) or the stored handle; permit: whether
\* the cell's one-permit semaphore has its permit; waitq: tasks queued on
\* the semaphore.  The semaphore is closed exactly when the value is set
\* (set_value stores the value, then closes; const_new_with builds the cell
\* with a closed semaphore).
OnceCell_const_new ==
    [value |-> None, permit |-> TRUE, waitq |-> <<>>]

\* set that installs an empty cell instead of the populated one
OnceCell_const_new_with_empty(h) ==
    [value |-> None, permit |-> TRUE, waitq |-> <<>>]

OnceCell_const_new_with(h) ==
    [value |-> h, permit |-> FALSE, waitq |-> <<>>]

\* a cell that never reports its value as set
OnceCell_initialized_never(c) == FALSE

OnceCell_initialized(c) == c.value # None

\* a semaphore that hands its permit to every caller
OnceCell_permit_free_always(c) == TRUE

\* semaphore.acquire() finds the permit
OnceCell_permit_free(c) == c.permit

\* Arc::clone: another handle to the same allocation
Arc_clone(h) == h

\* An element of the history: the cell, the operation that installed it
\* with its argument, the number of factory invocations started on it
\* (runs) and the number of them that completed and stored a value (done).
Installed(c, kind, arg) ==
    [value |-> c.value, permit |-> c.permit, waitq |-> c.waitq,
     origin |-> [kind |-> kind, arg |-> arg], runs |-> 0, done |-> 0]

VARIABLES
    cells,          \* history of the OnceCells held by `instance`
    readers,        \* tasks holding a read guard of `instance`
    writer,         \* task holding the write guard of `instance`, or 0
    lockq,          \* FIFO of tasks waiting for `instance`
    pc,             \* position of each task
    call,           \* the operation each task is in, and its argument
    tcell,          \* index of the cell that was current when the task
                    \* acquired its read guard
    ran,            \* id of the factory run the current call started, or 0
    last,           \* the last operation each task completed
    ops,            \* number of operations issued so far
    default_calls   \* the shared counter the factories increment

vars == <<cells, readers, writer, lockq, pc, call, tcell, ran, last, ops,
          default_calls>>

cur == Len(cells)

NoCall == [op |-> "none", arg |-> 0]
NoLast == [op |-> "none", arg |-> 0, h |-> None, cell |-> 0, ran |-> 0]

\* positions of get_or_init at which the task holds its read guard
ReadHolding == {"cell_check", "cell_acquire", "cell_wait", "factory", "ret"}

\* GlobalMockable::const_new: an unlocked RwLock holding an empty OnceCell
const_new ==
    /\ cells = <<Installed(OnceCell_const_new, "new", 0)>>
    /\ readers = {}
    /\ writer = 0
    /\ lockq = <<>>

Init ==
    /\ const_new
    /\ pc = [t \in Tasks |-> "idle"]
    /\ call = [t \in Tasks |-> NoCall]
    /\ tcell = [t \in Tasks |-> 0]
    /\ ran = [t \in Tasks |-> 0]
    /\ last = [t \in Tasks |-> NoLast]
    /\ ops = 0
    /\ default_calls = 0

\* ---- RwLock ------------------------------------------------------------
\* a read that only looks at the queue, not at the writer holding the lock
RwLock_can_read_ignoring_writer == lockq = <<>>

\* a reader-preferring lock: a read passes the writers that are queued
RwLock_can_read_passing_queue == writer = 0

\* read() is granted at once iff no permit is taken by a writer: none holds
\* the lock and none is queued (a queued writer has taken every free
\* permit).
RwLock_can_read == writer = 0 /\ lockq = <<>>

\* a write that does not wait for the readers to drain
RwLock_can_write_ignoring_readers == writer = 0 /\ lockq = <<>>

\* write() is granted at once iff all permits are free.
RwLock_can_write == writer = 0 /\ readers = {} /\ lockq = <<>>

\* positions at which a task is queued for a read guard / a write guard
\* (the nested_ positions are those of a call made by a running factory)
ReadWaiting == {"rd_wait", "nested_rd_wait"}
WriteWaiting == {"wr_wait", "nested_set_wait", "nested_clear_wait"}

\* the position at which a queued task resumes when it is given the lock
GrantedPc(p) ==
    CASE p = "rd_wait" -> "cell_check"
      [] p = "wr_wait" -> "wr"
      [] p = "nested_rd_wait" -> "nested_cell_check"
      [] p = "nested_set_wait" -> "nested_set"
      [] p = "nested_clear_wait" -> "nested_clear"
      [] OTHER -> p

\* number of leading read waiters of a queue
ReadPrefix(q) ==
    CHOOSE n \in 0..Len(q) :
        /\ \A i \in 1..n : pc[q[i]] \in ReadWaiting
        /\ n = Len(q) \/ pc[q[n + 1]] \notin ReadWaiting

\* a release that hands the lock to the queued writer while readers remain
Granted_writer_early(q, rds, wr) ==
    IF wr # 0 \/ q = <<>> THEN {}
    ELSE IF pc[q[1]] \in WriteWaiting THEN {q[1]}
    ELSE {q[i] : i \in 1..ReadPrefix(q)}

\* a release that wakes only the first queued reader
Granted_wake_one(q, rds, wr) ==
    IF wr # 0 \/ q = <<>> THEN {}
    ELSE IF pc[q[1]] \in WriteWaiting
         THEN (IF rds = {} THEN {q[1]} ELSE {})
         ELSE {q[1]}

\* the waiters that released permits are assigned to, in queue order, when
\* the lock is left with readers rds and writer wr
Granted(q, rds, wr) ==
    IF wr # 0 \/ q = <<>> THEN {}
    ELSE IF pc[q[1]] \in WriteWaiting
         THEN (IF rds = {} THEN {q[1]} ELSE {})
         ELSE {q[i] : i \in 1..ReadPrefix(q)}

\* drop of a guard by task t, leaving readers rds and writer wr; ncur is
\* the index of the current cell after the step
RwLock_release(t, rds, wr, ncur, newlast) ==
    LET G == Granted(lockq, rds, wr)
        GR == {g \in G : pc[g] \in ReadWaiting}
        GW == {g \in G : pc[g] \in WriteWaiting}
    IN  /\ readers' = rds \cup GR
        /\ writer' = IF GW # {} THEN CHOOSE g \in GW : TRUE ELSE wr
        /\ lockq' = SelectSeq(lockq, LAMBDA x : x \notin G)
        /\ pc' = [u \in Tasks |->
                    IF u = t THEN "idle"
                    ELSE IF u \in G THEN GrantedPc(pc[u])
                    ELSE pc[u]]
        /\ tcell' = [u \in Tasks |->
                    IF u = t THEN 0
                    ELSE IF u \in GR THEN ncur
                    ELSE tcell[u]]
        /\ call' = [call EXCEPT ![t] = NoCall]
        /\ ran' = [ran EXCEPT ![t] = 0]
        /\ last' = [last EXCEPT ![t] = newlast]

\* ---- get_or_init -------------------------------------------------------
\* self.instance.read().await
read(t, f) ==
    /\ pc[t] = "idle"
    /\ call' = [call EXCEPT ![t] = [op |-> "get", arg |-> f]]
    /\ IF RwLock_can_read
       THEN /\ readers' = readers \cup {t}
            /\ pc' = [pc EXCEPT ![t] = "cell_check"]
            /\ tcell' = [tcell EXCEPT ![t] = cur]
            /\ UNCHANGED lockq
       ELSE /\ lockq' = Append(lockq, t)
            /\ pc' = [pc EXCEPT ![t] = "rd_wait"]
            /\ UNCHANGED <<readers, tcell>>
    /\ UNCHANGED <<cells, writer, ran, last, default_calls>>

\* a call of get_or_init, counted in the budget of operations
get_or_init(t, f) ==
    /\ ops < MaxOps
    /\ ops' = ops + 1
    /\ read(t, f)

\* OnceCell::get_or_init, the initialized() test
OnceCell_check(t) ==
    /\ pc[t] = "cell_check"
    /\ pc' = [pc EXCEPT ![t] =
                IF OnceCell_initialized(cells[cur]) THEN "ret"
                ELSE "cell_acquire"]
    /\ UNCHANGED <<cells, readers, writer, lockq, call, tcell, ran, last,
                   ops, default_calls>>

\* OnceCell::get_or_init, semaphore.acquire().await: Err when the semaphore
\* is closed (the value is there); the permit when it is free, and f() is
\* then called (the factory increments the counter); else the task queues.
OnceCell_acquire(t) ==
    /\ pc[t] = "cell_acquire"
    /\ LET c == cells[cur] IN
       CASE OnceCell_initialized(c) ->
              /\ pc' = [pc EXCEPT ![t] = "ret"]
              /\ UNCHANGED <<cells, ran, default_calls>>
         [] ~OnceCell_initialized(c) /\ OnceCell_permit_free(c) ->
              /\ pc' = [pc EXCEPT ![t] = "factory"]
              /\ cells' = [cells EXCEPT ![cur] =
                              [c EXCEPT !.permit = FALSE, !.runs = @ + 1]]
              /\ default_calls' = default_calls + 1
              /\ ran' = [ran EXCEPT ![t] = default_calls + 1]
         [] OTHER ->
              /\ pc' = [pc EXCEPT ![t] = "cell_wait"]
              /\ cells' = [cells EXCEPT ![cur] =
                              [c EXCEPT !.waitq = Append(@, t)]]
              /\ UNCHANGED <<ran, default_calls>>
    /\ UNCHANGED <<readers, writer, lockq, call, tcell, last, ops>>

\* the factory's future completes with a new Arc; OnceCell::set_value
\* stores it and closes the semaphore, which wakes every queued task
factory_done(t) ==
    /\ pc[t] = "factory"
    /\ LET c == cells[cur]
           W == {c.waitq[i] : i \in 1..Len(c.waitq)}
       IN  /\ cells' = [cells EXCEPT ![cur] =
                          [c EXCEPT !.value = Arc_new(call[t].arg, ran[t]),
                                    !.waitq = <<>>,
                                    !.done = @ + 1]]
           /\ pc' = [u \in Tasks |->
                       IF u = t \/ u \in W THEN "ret" ELSE pc[u]]
    /\ UNCHANGED <<readers, writer, lockq, call, tcell, ran, last, ops,
                   default_calls>>

\* .clone(), then the read guard is dropped at the end of the statement
get_return(t) ==
    /\ pc[t] = "ret"
    /\ RwLock_release(t, readers \ {t}, writer, cur,
                      [op |-> "get", arg |-> call[t].arg,
                       h |-> Arc_clone(cells[cur].value),
                       cell |-> tcell[t], ran |-> ran[t]])
    /\ UNCHANGED <<cells, ops, default_calls>>

\* ---- set / clear -------------------------------------------------------
\* self.instance.write().await
write(t, op, v) ==
    /\ pc[t] = "idle"
    /\ ops < MaxOps
    /\ ops' = ops + 1
    /\ call' = [call EXCEPT ![t] = [op |-> op, arg |-> v]]
    /\ IF RwLock_can_write
       THEN /\ writer' = t
            /\ pc' = [pc EXCEPT ![t] = "wr"]
            /\ UNCHANGED lockq
       ELSE /\ lockq' = Append(lockq, t)
            /\ pc' = [pc EXCEPT ![t] = "wr_wait"]
            /\ UNCHANGED writer
    /\ UNCHANGED <<cells, readers, tcell, ran, last, default_calls>>

set(t, v) == write(t, "set", v)

clear(t) == write(t, "clear", 0)

\* *write = <new cell>; the write guard is dropped at the end of the function
install(t, op, c) ==
    /\ pc[t] = "wr"
    /\ call[t].op = op
    /\ cells' = Append(cells, Installed(c, op, call[t].arg))
    /\ RwLock_release(t, readers, 0, cur + 1,
                      [op |-> op, arg |-> call[t].arg, h |-> c.value,
                       cell |-> cur + 1, ran |-> 0])
    /\ UNCHANGED <<ops, default_calls>>

set_install(t) ==
    install(t, "set", OnceCell_const_new_with(Arc_new(call[t].arg, 0)))

\* a clear that installs a copy of the cell it replaces
clear_install_keep(t) ==
    install(t, "clear", [value |-> cells[cur].value,
                         permit |-> cells[cur].permit, waitq |-> <<>>])

clear_install(t) ==
    install(t, "clear", OnceCell_const_new)

\* ---- a factory that panics ----------------------------------------------
\* a permit that is leaked instead of returned
OnceCell_permit_forget(c) == c

\* drop of the SemaphorePermit held across f().await: the permit goes to
\* the first queued task, or back to the semaphore
OnceCell_permit_drop(c) ==
    IF c.waitq = <<>> THEN [c EXCEPT !.permit = TRUE]
    ELSE [c EXCEPT !.waitq = Tail(@), !.runs = @ + 1]

\* the factory panics inside f().await: unwinding drops the permit (the
\* first queued task receives it and calls its own factory), then the read
\* guard; the panic leaves get_or_init in the calling task only
factory_fail(t) ==
    /\ pc[t] = "factory"
    /\ LET c == cells[cur]
           d == OnceCell_permit_drop(c)
           W == IF Len(d.waitq) < Len(c.waitq) THEN {Head(c.waitq)} ELSE {}
           G == Granted(lockq, readers \ {t}, writer)
       IN  /\ cells' = [cells EXCEPT ![cur] = d]
           /\ default_calls' = default_calls + Cardinality(W)
           /\ readers' = readers \ {t}
           /\ writer' = IF G # {} THEN CHOOSE g \in G : TRUE ELSE writer
           /\ lockq' = SelectSeq(lockq, LAMBDA x : x \notin G)
           /\ pc' = [u \in Tasks |->
                       IF u = t THEN "idle"
                       ELSE IF u \in W THEN "factory"
                       ELSE IF u \in G THEN GrantedPc(pc[u])
                       ELSE pc[u]]
           /\ ran' = [u \in Tasks |->
                       IF u = t THEN 0
                       ELSE IF u \in W THEN default_calls + 1
                       ELSE ran[u]]
           /\ tcell' = [tcell EXCEPT ![t] = 0]
           /\ call' = [call EXCEPT ![t] = NoCall]
           /\ last' = [last EXCEPT ![t] =
                          [op |-> "panic", arg |-> call[t].arg, h |-> None,
                           cell |-> tcell[t], ran |-> ran[t]]]
    /\ UNCHANGED ops

Next ==
    \/ \E t \in Tasks, f \in FactoryVals : get_or_init(t, f)
    \/ \E t \in Tasks : OnceCell_check(t)
    \/ \E t \in Tasks : OnceCell_acquire(t)
    \/ \E t \in Tasks : factory_done(t)
    \/ \E t \in Tasks : get_return(t)
    \/ \E t \in Tasks, v \in SetVals : set(t, v)
    \/ \E t \in Tasks : clear(t)
    \/ \E t \in Tasks : set_install(t)
    \/ \E t \in Tasks : clear_install(t)

Spec == Init /\ [][Next]_vars

\* the slot with factories that may panic
NextFail ==
    \/ Next
    \/ \E t \in Tasks : factory_fail(t)

SpecFail == Init /\ [][NextFail]_vars

\* ---- a factory that calls back into the slot ---------------------------
\* the running factory of t calls set or clear on the same slot:
\* self.instance.write().await, made by a task that holds a read guard
factory_calls_write(t, op) ==
    /\ pc[t] = "factory"
    /\ IF RwLock_can_write
       THEN /\ writer' = t
            /\ pc' = [pc EXCEPT ![t] = GrantedPc("nested_" \o op \o "_wait")]
            /\ UNCHANGED lockq
       ELSE /\ lockq' = Append(lockq, t)
            /\ pc' = [pc EXCEPT ![t] = "nested_" \o op \o "_wait"]
            /\ UNCHANGED writer
    /\ UNCHANGED <<cells, readers, call, tcell, ran, last, ops,
                   default_calls>>

factory_calls_set(t) == factory_calls_write(t, "set")

factory_calls_clear(t) == factory_calls_write(t, "clear")

\* the running factory of t calls get_or_init on the same slot:
\* self.instance.read().await; a second read guard of the same task
factory_calls_get(t) ==
    /\ pc[t] = "factory"
    /\ IF RwLock_can_read
       THEN /\ readers' = readers \cup {t}
            /\ pc' = [pc EXCEPT ![t] = GrantedPc("nested_rd_wait")]
            /\ UNCHANGED lockq
       ELSE /\ lockq' = Append(lockq, t)
            /\ pc' = [pc EXCEPT ![t] = "nested_rd_wait"]
            /\ UNCHANGED readers
    /\ UNCHANGED <<cells, writer, call, tcell, ran, last, ops,
                   default_calls>>

\* OnceCell::get_or_init of the nested call: the value when the cell is
\* initialized, the factory when the permit is free, else the task queues
\* on the cell's semaphore
nested_OnceCell_get_or_init(t) ==
    /\ pc[t] = "nested_cell_check"
    /\ LET c == cells[cur] IN
       CASE OnceCell_initialized(c) ->
              /\ pc' = [pc EXCEPT ![t] = "nested_ret"]
              /\ UNCHANGED cells
         [] ~OnceCell_initialized(c) /\ OnceCell_permit_free(c) ->
              /\ pc' = [pc EXCEPT ![t] = "nested_factory"]
              /\ cells' = [cells EXCEPT ![cur] = [c EXCEPT !.permit = FALSE]]
         [] OTHER ->
              /\ pc' = [pc EXCEPT ![t] = "nested_cell_wait"]
              /\ cells' = [cells EXCEPT ![cur] =
                              [c EXCEPT !.waitq = Append(@, t)]]
    /\ UNCHANGED <<readers, writer, lockq, call, tcell, ran, last, ops,
                   default_calls>>

NextReentrant ==
    \/ Next
    \/ \E t \in Tasks : factory_calls_set(t)
    \/ \E t \in Tasks : factory_calls_clear(t)
    \/ \E t \in Tasks : factory_calls_get(t)
    \/ \E t \in Tasks : nested_OnceCell_get_or_init(t)

SpecReentrant == Init /\ [][NextReentrant]_vars

\* ---- callers that read again and again --------------------------------
\* the factory passed by the calls outside the budget of operations
AgainVals == {1}

\* a call of get_or_init outside the budget of operations: the callers may
\* issue any number of them, one after the other
get_or_init_again(t, f) ==
    /\ read(t, f)
    /\ UNCHANGED ops

\* the steps of a task inside a call: each is taken when the runtime polls
\* the task, or when the factory's future completes
Step(t) ==
    \/ OnceCell_check(t)
    \/ OnceCell_acquire(t)
    \/ factory_done(t)
    \/ get_return(t)
    \/ set_install(t)
    \/ clear_install(t)

\* any number of get_or_init calls, and up to MaxLiveWrites set/clear calls
NextLive ==
    \/ /\ ops < MaxLiveWrites
       /\ \/ \E t \in Tasks, v \in SetVals : set(t, v)
          \/ \E t \in Tasks : clear(t)
    \/ \E t \in Tasks : Step(t)
    \/ \E t \in Tasks, f \in AgainVals : get_or_init_again(t, f)

\* the runtime polls every task that can run, and every factory completes
Fairness == \A t \in Tasks : WF_vars(Step(t))

SpecLive == Init /\ [][NextLive]_vars /\ Fairness

\* ---- the accessor generated by define_global_mockable! ------------------
\* the factory bound to the accessor ($default_impl)
default_impl == 1

\* STATIC_INSTANCE is one GlobalMockable built by const_new: the slot of
\* Init.  get() is static_instance().get_or_init(Self::default_impl).
\* an accessor whose get() binds another factory
Acc_get_other(t) == get_or_init(t, 2)

Acc_get(t) == get_or_init(t, default_impl)

Acc_set(t, v) == set(t, v)

Acc_clear(t) == clear(t)

AccNext ==
    \/ \E t \in Tasks : Acc_get(t)
    \/ \E t \in Tasks, v \in SetVals : Acc_set(t, v)
    \/ \E t \in Tasks : Acc_clear(t)
    \/ \E t \in Tasks : OnceCell_check(t)
    \/ \E t \in Tasks : OnceCell_acquire(t)
    \/ \E t \in Tasks : factory_done(t)
    \/ \E t \in Tasks : get_return(t)
    \/ \E t \in Tasks : set_install(t)
    \/ \E t \in Tasks : clear_install(t)

SpecAccessor == Init /\ [][AccNext]_vars

\* ---- properties --------------------------------------------------------
TypeOK ==
    /\ writer \in Tasks \cup {0}
    /\ readers \subseteq Tasks
    /\ \A t \in Tasks : pc[t] \in {"idle", "rd_wait", "cell_check",
                                    "cell_acquire", "cell_wait", "factory",
                                    "ret", "wr_wait", "wr",
                                    "nested_rd_wait", "nested_set_wait",
                                    "nested_clear_wait", "nested_set",
                                    "nested_clear", "nested_cell_check",
                                    "nested_cell_wait", "nested_factory",
                                    "nested_ret"}

\* the get_or_init calls that have returned a handle read from cell i
Returned(i) == {t \in Tasks : last[t].op = "get" /\ last[t].cell = i}

\* C1 (single init): on the freshly constructed slot, before any set/clear
\* takes effect, at most one factory is ever invoked, the counter is
\* incremented exactly once as soon as a call has returned, and every call
\* served by the first cell returns the same handle: the Arc built by the
\* one factory that ran.
C1_SingleInit ==
    /\ cur = 1 => default_calls <= 1 /\ cells[1].runs = default_calls
    /\ Cardinality({t \in Tasks : pc[t] = "factory" /\ cur = 1}) <= 1
    /\ \A t \in Returned(1) :
         /\ cells[1].runs = 1
         /\ cur = 1 => default_calls = 1
         /\ last[t].h = cells[1].value
         /\ last[t].h.id = 1
         /\ last[t].h.val \in FactoryVals
         /\ last[t].ran # 0 => last[t].h = Arc_new(last[t].arg, last[t].ran)
         /\ \A u \in Returned(1) :
              /\ last[u].h = last[t].h
              /\ (u # t => last[u].ran = 0 \/ last[t].ran = 0)

\* three calls on the fresh slot have returned, one of them ran its factory
C1_Witness ==
    /\ cur = 1
    /\ Cardinality(Returned(1)) >= 3
    /\ Cardinality({t \in Returned(1) : last[t].ran = 1}) = 1

\* C2 (override wins): once set(v) has returned, the cell it installed holds
\* v; no factory is ever invoked on a cell installed by set, and every
\* get_or_init served by such a cell returns the handle v that was set.
C2_OverrideWins ==
    /\ \A t \in Tasks :
         last[t].op = "set" =>
            /\ last[t].h = Arc_new(last[t].arg, 0)
            /\ cells[last[t].cell].value = last[t].h
            /\ cells[last[t].cell].origin = [kind |-> "set",
                                             arg |-> last[t].arg]
    /\ \A i \in 1..cur :
         cells[i].origin.kind = "set" =>
            /\ cells[i].runs = 0
            /\ cells[i].value = Arc_new(cells[i].origin.arg, 0)
            /\ \A t \in Returned(i) :
                 /\ last[t].ran = 0
                 /\ last[t].h = Arc_new(cells[i].origin.arg, 0)
    /\ \A t \in Tasks :
         pc[t] \in ReadHolding /\ cells[cur].origin.kind = "set" =>
            /\ pc[t] \notin {"factory", "cell_wait"}
            /\ ran[t] = 0

\* a get_or_init has returned the value of a set that replaced a cell a
\* factory had populated
C2_Witness ==
    \E t \in Tasks :
        /\ last[t].op = "get"
        /\ last[t].cell > 1
        /\ cells[last[t].cell].origin.kind = "set"
        /\ cells[last[t].cell - 1].runs = 1

\* C3 (reset re-initializes): a cell installed by clear is empty until a
\* factory populates it; exactly one factory is invoked on it before any
\* get_or_init returns from it, the handle returned is that factory's new
\* Arc (never the value of an earlier cell), and the call that ran the
\* factory returns the Arc of its own factory.
C3_ResetReinit ==
    /\ \A t \in Tasks :
         last[t].op = "clear" =>
            /\ last[t].h = None
            /\ cells[last[t].cell].origin.kind = "clear"
    /\ \A i \in 1..cur :
         cells[i].origin.kind = "clear" =>
            /\ cells[i].runs <= 1
            /\ cells[i].value = None <=>
                  (cells[i].runs = 0 \/ \E t \in Tasks :
                        pc[t] = "factory" /\ tcell[t] = i)
            /\ cells[i].value # None =>
                  /\ cells[i].value.id >= 1
                  /\ cells[i].value.val \in FactoryVals
                  /\ \A j \in 1..(i - 1) : cells[j].value # cells[i].value
            /\ \A t \in Returned(i) :
                 /\ cells[i].runs = 1
                 /\ last[t].h = cells[i].value
                 /\ last[t].h # None
                 /\ last[t].ran # 0 =>
                       last[t].h = Arc_new(last[t].arg, last[t].ran)
    /\ \A t \in Tasks :
         pc[t] = "ret" /\ cells[cur].origin.kind = "clear" =>
            cells[cur].runs = 1

\* a get_or_init ran its factory on a cell installed by a clear that
\* replaced a populated cell
C3_Witness ==
    \E t \in Tasks :
        /\ last[t].op = "get"
        /\ last[t].ran # 0
        /\ last[t].cell > 1
        /\ cells[last[t].cell].origin.kind = "clear"
        /\ cells[last[t].cell - 1].value # None

\* C4 (idempotent reads): a factory is in flight, or awaited, only on a cell
\* that is still empty; a call that returns without running a factory
\* returns the value the cell already held, and all calls served by one
\* cell return the same handle.
C4_IdempotentReads ==
    /\ \A t \in Tasks :
         pc[t] \in {"factory", "cell_wait"} => cells[cur].value = None
    /\ \A t \in Tasks :
         pc[t] = "ret" => cells[cur].value # None
    /\ \A t \in Tasks :
         last[t].op = "get" =>
            /\ last[t].h # None
            /\ last[t].h = cells[last[t].cell].value
            /\ last[t].ran # 0 => last[t].h.id = last[t].ran
            /\ \A u \in Returned(last[t].cell) : last[u].h = last[t].h

\* two calls found the cell populated and returned the same handle
C4_Witness ==
    \E t, u \in Tasks :
        /\ t # u
        /\ last[t].op = "get" /\ last[u].op = "get"
        /\ last[t].cell = last[u].cell
        /\ last[t].ran = 0 /\ last[u].ran = 0
        /\ cells[last[t].cell].runs = 1

\* C5 (atomic install): while a get_or_init holds shared access, the current
\* cell is the one that was current when it acquired the access; the handle
\* it returns is the value of that cell, and the cell its factory populated
\* is that cell.
C5_AtomicInstall ==
    /\ \A t \in Tasks :
         pc[t] \in ReadHolding =>
            /\ tcell[t] = cur
            /\ (pc[t] = "ret" /\ ran[t] # 0 =>
                   cells[tcell[t]].value = Arc_new(call[t].arg, ran[t]))
    /\ \A t \in Tasks :
         last[t].op = "get" =>
            /\ last[t].h = cells[last[t].cell].value
            /\ last[t].ran # 0 =>
                  cells[last[t].cell].value.id = last[t].ran
            /\ \A i \in 1..cur :
                 i # last[t].cell /\ cells[i].value.id > 0 =>
                    cells[i].value # last[t].h

\* a get_or_init returned the value of a cell that a set/clear has since
\* replaced, while another call holds the new cell
C5_Witness ==
    \E t, u \in Tasks :
        /\ last[t].op = "get"
        /\ last[t].cell < cur
        /\ pc[u] \in ReadHolding

\* C6 (ordering of set/clear against readers): a cell is replaced only by
\* the task inside the exclusive section, when no get_or_init holds shared
\* access - so no factory is in flight, and a factory that was started on
\* the replaced cell has completed and populated it - and every reader
\* that holds shared access right after the replacement sees the new cell.
C6_InstallOrdered ==
    [][Len(cells') # Len(cells) =>
          /\ Len(cells') = Len(cells) + 1
          /\ writer # 0 /\ pc[writer] = "wr"
          /\ readers = {}
          /\ \A t \in Tasks : pc[t] \notin ReadHolding
          /\ cells[cur].runs > 0 => cells[cur].value # None
          /\ \A t \in Tasks :
               pc'[t] \in ReadHolding =>
                  /\ pc[t] = "rd_wait"
                  /\ tcell'[t] = Len(cells')]_vars

\* a factory has completed and its caller still holds shared access, while
\* a set/clear and, behind it, a get_or_init are queued
C6_Witness ==
    \E t, w, r \in Tasks :
        /\ pc[t] = "ret" /\ ran[t] # 0
        /\ pc[w] = "wr_wait"
        /\ pc[r] = "rd_wait"

\* C7 (accessor delegation): every get() of the accessor returns the value
\* of its bound factory when the cell it read was installed by clear or by
\* construction, and the handle last set when the cell was installed by
\* set; no factory other than the bound one ever populates the slot.
C7_AccessorDelegation ==
    /\ \A t \in Tasks :
         last[t].op = "get" =>
            LET c == cells[last[t].cell] IN
            /\ last[t].arg = default_impl
            /\ IF c.origin.kind = "set"
               THEN last[t].h = Arc_new(c.origin.arg, 0)
               ELSE /\ last[t].h.val = default_impl
                    /\ last[t].h.id >= 1
    /\ \A i \in 1..cur :
         cells[i].value # None =>
            IF cells[i].origin.kind = "set"
            THEN cells[i].value = Arc_new(cells[i].origin.arg, 0)
            ELSE cells[i].value.val = default_impl

\* get() returned the default again after a set and a clear
C7_Witness ==
    \E t \in Tasks :
        /\ last[t].op = "get"
        /\ last[t].cell > 2
        /\ cells[last[t].cell].origin.kind = "clear"
        /\ cells[last[t].cell - 1].origin.kind = "set"
        /\ last[t].h.val = default_impl

\* C8 (mutual exclusion): while a set/clear is inside its exclusive section
\* no get_or_init holds shared access, no factory runs, and no other
\* set/clear is inside its exclusive section.
C8_MutualExclusion ==
    /\ writer # 0 =>
          /\ readers = {}
          /\ \A t \in Tasks : pc[t] \notin ReadHolding
    /\ \A t \in Tasks : pc[t] = "wr" <=> writer = t
    /\ \A t \in Tasks : pc[t] \in ReadHolding <=> t \in readers
    /\ Cardinality({t \in Tasks : pc[t] = "wr"}) <= 1

\* a set/clear is inside its exclusive section while a get_or_init and
\* another set/clear wait
C8_Witness ==
    \E w, r, x \in Tasks :
        /\ writer = w
        /\ pc[r] = "rd_wait"
        /\ pc[x] = "wr_wait"

\* C9 (populated is terminal): a populated cell keeps its value for ever; a
\* cell goes from empty to populated only when the factory of a call
\* holding that cell completes; the value of the slot, once populated,
\* changes only by set/clear installing a new cell.
C9_PopulatedTerminal ==
    [][/\ Len(cells') >= Len(cells)
       /\ \A i \in 1..Len(cells) :
            /\ cells[i].value # None => cells'[i].value = cells[i].value
            /\ cells[i].value = None /\ cells'[i].value # None =>
                  \E t \in Tasks :
                      /\ pc[t] = "factory" /\ pc'[t] = "ret"
                      /\ tcell[t] = i
                      /\ cells'[i].value = Arc_new(call[t].arg, ran[t])
       /\ (cells[cur].value # None
             /\ cells'[Len(cells')].value # cells[cur].value) =>
                  /\ Len(cells') = Len(cells) + 1
                  /\ writer # 0 /\ pc[writer] = "wr"]_vars

\* a cell populated by a factory has been replaced and still holds its value
C9_Witness ==
    \E i \in 1..(cur - 1) : cells[i].runs = 1 /\ cells[i].value # None

\* the lock position of a task in the queue
QueuePos(t) == CHOOSE i \in 1..Len(lockq) : lockq[i] = t

\* C10 as stated: a get_or_init waits for shared access only while a
\* set/clear is inside its exclusive section, and waits on the cell only
\* while another caller's factory is in flight on that cell.
C10_SuspendsOnlyOnExclusive ==
    \A t \in Tasks :
        /\ pc[t] = "rd_wait" => writer # 0
        /\ pc[t] = "cell_wait" =>
              \E u \in Tasks \ {t} : pc[u] = "factory" /\ tcell[u] = tcell[t]

\* C10 amended: a get_or_init waits for shared access only while a set/clear
\* is inside its exclusive section or is queued ahead of it for exclusive
\* access, and waits on the cell only while another caller's factory is in
\* flight on that cell.
C10_SuspendsOnlyOnWriterAhead ==
    \A t \in Tasks :
        /\ pc[t] = "rd_wait" =>
              /\ \E i \in 1..Len(lockq) : lockq[i] = t
              /\ \/ writer # 0
                 \/ \E i \in 1..(QueuePos(t) - 1) : pc[lockq[i]] = "wr_wait"
        /\ pc[t] = "cell_wait" =>
              \E u \in Tasks \ {t} : pc[u] = "factory" /\ tcell[u] = tcell[t]

\* a get_or_init waits behind a queued set/clear while no set/clear is
\* inside its exclusive section
C10_Witness ==
    \E t, w \in Tasks :
        /\ pc[t] = "rd_wait"
        /\ pc[w] = "wr_wait"
        /\ writer = 0
        /\ readers # {}

\* C11 (non-terminating factory): while a factory is in flight on the
\* current cell, the cell stays empty, no get_or_init is about to return
\* and no set/clear is inside its exclusive section; a step that leaves the
\* factory in flight returns no call and replaces no cell.  So if the
\* factory never completes, no call sharing the cell ever returns and no
\* set/clear ever takes effect.
C11_HungFactoryBlocks ==
    /\ [](\A t \in Tasks :
            pc[t] = "factory" =>
               /\ tcell[t] = cur
               /\ cells[cur].value = None
               /\ writer = 0
               /\ \A u \in Tasks : pc[u] \notin {"wr", "ret"}
               /\ \A u \in Tasks :
                    pc[u] = "wr_wait" =>
                       \E i \in 1..Len(lockq) : lockq[i] = u)
    /\ [][\A t \in Tasks :
            pc[t] = "factory" /\ pc'[t] = "factory" =>
               /\ Len(cells') = Len(cells)
               /\ cells'[cur].value = None
               /\ \A u \in Tasks :
                    /\ pc[u] # "idle" => pc'[u] # "idle"
                    /\ last'[u] = last[u]]_vars

\* a factory is in flight while another get_or_init waits on the cell and a
\* set/clear waits for exclusive access
C11_Witness ==
    \E t, u, w \in Tasks :
        /\ pc[t] = "factory"
        /\ pc[u] = "cell_wait"
        /\ pc[w] = "wr_wait"

\* C12 (factory failure): when the factory of a get_or_init panics, only
\* that call sees the failure, the current cell stays empty, the call's
\* shared access is released, and the cell's permit is not lost: the first
\* waiting call runs its own factory, or the permit is free for a later
\* call; the lock is left usable for set and clear.
C12_FailureRetryable ==
    /\ [](/\ readers = {t \in Tasks : pc[t] \in ReadHolding}
          /\ \A t \in Tasks :
               last[t].op = "panic" => last[t].h = None /\ last[t].ran # 0
          /\ \A i \in 1..cur :
               (cells[i].value = None
                  /\ \A t \in Tasks : pc[t] # "factory" \/ i # cur) =>
                     /\ cells[i].permit
                     /\ cells[i].waitq = <<>>)
    /\ [][\A t \in Tasks :
            pc[t] = "factory" /\ pc'[t] = "idle" =>
               /\ last'[t].op = "panic"
               /\ Len(cells') = Len(cells)
               /\ cells'[cur].value = None
               /\ t \notin readers'
               /\ \A u \in Tasks \ {t} :
                    /\ last'[u] = last[u]
                    /\ pc[u] = "cell_wait" =>
                          pc'[u] \in {"cell_wait", "factory"}
               /\ cells[cur].waitq # <<>> =>
                     LET u == Head(cells[cur].waitq) IN
                     /\ pc'[u] = "factory"
                     /\ ran'[u] = default_calls'
                     /\ default_calls' = default_calls + 1
               /\ (readers = {t} /\ lockq # <<>>) =>
                     writer' = Head(lockq)]_vars

\* after a factory failed on a cell, another call's factory populated that
\* cell, and a set/clear has replaced it since
C12_Witness ==
    \E t \in Tasks :
        /\ last[t].op = "panic"
        /\ cells[last[t].cell].done = 1
        /\ cells[last[t].cell].runs >= 2
        /\ cur > last[t].cell

\* C13 (per-caller program order): a call never observes a cell older than
\* the one its caller's previous operation observed or installed; when no
\* set/clear has taken effect since the caller's own set(v), its get_or_init
\* returns v without running a factory; since its own clear, a handle built
\* by a factory and not the value of any earlier cell; since its own
\* get_or_init, the same handle again.
C13_ProgramOrder ==
    [][\A t \in Tasks :
         /\ (pc[t] = "wr" /\ pc'[t] = "idle") =>
               /\ last'[t].cell = Len(cells')
               /\ last'[t].cell > last[t].cell
         /\ (pc[t] = "ret" /\ pc'[t] = "idle") =>
               /\ last'[t].op = "get"
               /\ last'[t].cell >= last[t].cell
               /\ (last[t].op = "set" /\ last'[t].cell = last[t].cell) =>
                     /\ last'[t].h = Arc_new(last[t].arg, 0)
                     /\ last'[t].ran = 0
               /\ (last[t].op = "clear" /\ last'[t].cell = last[t].cell) =>
                     /\ last'[t].h.id >= 1
                     /\ \A j \in 1..(last[t].cell - 1) :
                          cells[j].value # last'[t].h
               /\ (last[t].op = "get" /\ last'[t].cell = last[t].cell) =>
                     /\ last'[t].h = last[t].h
                     /\ last'[t].ran = 0]_vars

\* a caller is about to return from a get_or_init on the cell its own
\* clear installed, which replaced a populated cell
C13_Witness ==
    \E t \in Tasks :
        /\ pc[t] = "ret"
        /\ last[t].op = "clear"
        /\ tcell[t] = last[t].cell
        /\ cells[last[t].cell - 1].value # None

\* C14 (frame): the current cell is replaced only by the set/clear inside
\* its exclusive section, which runs no factory and leaves the earlier
\* cells as they are; a get_or_init step never replaces the cell, touches
\* only the current cell, and changes nothing when that cell is populated;
\* the counter moves only when a get_or_init calls its factory.
C14_Frame ==
    [][/\ Len(cells') # Len(cells) =>
             /\ Len(cells') = Len(cells) + 1
             /\ writer # 0
             /\ pc[writer] = "wr" /\ pc'[writer] = "idle"
             /\ call[writer].op \in {"set", "clear"}
             /\ readers = {}
             /\ \A i \in 1..Len(cells) : cells'[i] = cells[i]
             /\ cells'[Len(cells')].runs = 0
             /\ default_calls' = default_calls
       /\ Len(cells') = Len(cells) =>
             /\ \A i \in 1..(cur - 1) : cells'[i] = cells[i]
             /\ cells[cur].value # None =>
                   cells' = cells /\ default_calls' = default_calls
             /\ cells' # cells =>
                   \E t \in readers : call[t].op = "get" /\ pc'[t] # pc[t]
       /\ default_calls' # default_calls =>
             /\ default_calls' = default_calls + 1
             /\ \E t \in Tasks :
                    /\ call[t].op = "get"
                    /\ pc[t] = "cell_acquire" /\ pc'[t] = "factory"]_vars

\* a get_or_init read a populated cell that a set/clear had installed or
\* that another call had populated, and returned without running a factory
C14_Witness ==
    \E t \in Tasks :
        /\ last[t].op = "get"
        /\ last[t].ran = 0
        /\ last[t].cell = cur
        /\ cur > 1

\* C15 (one factory in flight per cell): at most one task runs a factory on
\* a cell; it holds the cell's permit; a call that finds the permit taken
\* waits, and starts its own factory only in the step in which the factory
\* in flight fails.
C15_OneFactoryPerCell ==
    /\ [](/\ Cardinality({t \in Tasks : pc[t] = "factory"}) <= 1
          /\ \A t \in Tasks :
               pc[t] = "factory" =>
                  /\ tcell[t] = cur
                  /\ ~cells[cur].permit
                  /\ cells[cur].value = None
                  /\ ran[t] # 0
          /\ \A t \in Tasks :
               pc[t] = "cell_wait" =>
                  /\ ran[t] = 0
                  /\ \E i \in 1..Len(cells[cur].waitq) :
                         cells[cur].waitq[i] = t
                  /\ \E u \in Tasks \ {t} : pc[u] = "factory")
    /\ [][\A t \in Tasks :
            pc[t] = "cell_wait" /\ pc'[t] = "factory" =>
               \E u \in Tasks \ {t} :
                   /\ pc[u] = "factory" /\ pc'[u] = "idle"
                   /\ last'[u].op = "panic"]_vars

\* after a failure the first waiting call runs its factory while another
\* call still waits on the cell
C15_Witness ==
    \E t, u \in Tasks :
        /\ pc[t] = "factory"
        /\ cells[cur].runs = 2
        /\ pc[u] = "cell_wait"

\* the number of factory invocations that ran to completion on cells 1..n
RECURSIVE Completed(_)
Completed(n) == IF n = 0 THEN 0 ELSE cells[n].done + Completed(n - 1)

\* the number of clear() calls that have taken effect
Clears == Cardinality({i \in 1..cur : cells[i].origin.kind = "clear"})

\* C16 (factory-run bound): the factory invocations that ran to completion
\* number at most 1 plus the clears that took effect; none completes on a
\* cell installed by set, at most one on any cell.
C16_FactoryRunBound ==
    /\ Completed(cur) <= 1 + Clears
    /\ Completed(cur) <= default_calls
    /\ Clears = 0 => Completed(cur) <= 1
    /\ \A i \in 1..cur :
         /\ cells[i].done <= 1
         /\ cells[i].done = 1 <=> cells[i].value.id >= 1
         /\ cells[i].origin.kind = "set" => cells[i].done = 0

\* two factories completed, one before and one after a clear
C16_Witness ==
    /\ Completed(cur) = 2
    /\ Clears = 1

\* C17 (progress): when every task that can take a step is eventually
\* polled and every factory completes, every get_or_init, set and clear
\* that was called returns - also a set/clear called while the other
\* callers keep issuing overlapping get_or_init calls.
C17_Progress ==
    \A t \in Tasks : (pc[t] # "idle") ~> (pc[t] = "idle")

\* a set/clear waits for exclusive access while a caller that has already
\* returned from one get_or_init holds shared access again and another
\* get_or_init is queued
C17_Witness ==
    \E w, r, q \in Tasks :
        /\ pc[w] = "wr_wait"
        /\ pc[r] \in ReadHolding
        /\ last[r].op = "get"
        /\ pc[q] = "rd_wait"

\* positions of a factory inside a call it made to its own slot
Nested == {"nested_rd_wait", "nested_set_wait", "nested_clear_wait",
           "nested_cell_check", "nested_cell_wait"}

\* positions at which such a call would have got past the lock or the cell
NestedPassed == {"nested_set", "nested_clear", "nested_factory",
                 "nested_ret"}

\* C18 (re-entrant factory): a call that a running factory makes to its own
\* slot never gets past the lock (set, clear, or get_or_init behind a
\* queued writer) or past the cell's semaphore (get_or_init); from then on
\* the cell stays empty, the factory's task stays inside the nested call,
\* no set/clear enters its exclusive section and no operation on the slot
\* returns.
C18_ReentrantDeadlock ==
    /\ [](\A t \in Tasks :
            /\ pc[t] \notin NestedPassed
            /\ pc[t] \in Nested =>
                  /\ t \in readers
                  /\ cells[cur].value = None
                  /\ ~cells[cur].permit
                  /\ writer = 0
                  /\ \A u \in Tasks : pc[u] \notin {"ret", "wr", "factory"})
    /\ [][\A t \in Tasks :
            pc[t] \in Nested =>
               /\ pc'[t] \in Nested
               /\ pc[t] # "nested_cell_check" => pc'[t] = pc[t]
               /\ Len(cells') = Len(cells)
               /\ cells'[cur].value = None
               /\ \A u \in Tasks :
                    /\ pc[u] # "idle" => pc'[u] # "idle"
                    /\ last'[u] = last[u]]_vars

\* a factory is stuck in a set/clear on its own slot, with a get_or_init of
\* another caller queued behind it and a third caller waiting on the cell
C18_Witness ==
    \E t, u, w \in Tasks :
        /\ pc[t] \in {"nested_set_wait", "nested_clear_wait"}
        /\ pc[u] = "rd_wait"
        /\ pc[w] = "cell_wait"

====
